---------------------------- MODULE Spec2Model ----------------------------
(***************************************************************************)
(* A model of the dependency scanner: the Maven manifest parsers           *)
(* (parse_maven_pom, parse_pom), the Gradle build-file parsers             *)
(* (parse_gradle_build_file, parse_gradle_file), the tree scan             *)
(* generate_dependency_report and the multi-repository main with its CSV   *)
(* report.                                                                 *)
(*                                                                         *)
(* Python values.  A str is a sequence of one-character strings.  None is  *)
(* the one-element sequence None below, whose element is no character.     *)
(* An Element is a record [tag, text, children]; its tag is a str in which *)
(* the namespace prefix "{http://maven.apache.org/POM/4.0.0}" is the one   *)
(* symbol MVN.  Element.find returns None or an element: it is modelled as *)
(* the sequence of zero or one elements.                                   *)
(***************************************************************************)
EXTENDS Integers, Sequences, FiniteSets, TLC

VARIABLES
    pomFile,      \* the manifest a parser is called on
    gradleFile,   \* the build file a parser is called on
    parser,       \* the parser that was called ("none" before the call)
    outcome,      \* what the call did: returned a list, or raised
    pc,           \* where a scan is: "walk", "returned", "raised", ...
    dirsLeft,     \* the directories os.walk has still to yield
    walk_root,    \* the directory being visited (its number in walk order)
    files,        \* its file names, in iteration order, with the files
    found,        \* the "Found ... project" lines printed so far
    project_dependencies,   \* generate_dependency_report's result
    writes,       \* how often each key of project_dependencies was assigned
    noDepsLines,  \* the "No dependencies found." lines main has printed
    repo,         \* the multi-repository main: the repository it is at
    all_dependencies,   \* its rows, each in the order of csv_columns
    csvfile       \* the text of dependency_report.csv, None before it is written

parserVars == <<pomFile, gradleFile, parser, outcome>>

scanVars == <<pc, dirsLeft, walk_root, files, found, project_dependencies, writes,
              noDepsLines>>

multiVars == <<repo, all_dependencies, csvfile>>

vars == <<parserVars, scanVars, multiVars>>

-----------------------------------------------------------------------------
(* Bounds of the model *)

MaxProps == 2
MaxDeps == 2
MaxDirs == 2
MaxFiles == 2

-----------------------------------------------------------------------------
(* Python helpers *)

None == <<"<None>">>

\* the truth value of a str or None
Truthy(v) == v /= None /\ v /= <<>>

\* the truth value of a list
TruthyList(l) == Len(l) > 0

\* the truth value of a dict
TruthyDict(d) == DOMAIN d /= {}

StartsWith(s, p) == Len(s) >= Len(p) /\ SubSeq(s, 1, Len(p)) = p

EndsWith(s, p) == Len(s) >= Len(p) /\ SubSeq(s, Len(s) - Len(p) + 1, Len(s)) = p

SliceFrom2(s) == SubSeq(s, 3, Len(s))

\* s[2:-1]
Slice2ToLast(s) == SubSeq(s, 3, Len(s) - 1)

Returned(v) == [kind |-> "return", value |-> v, exc |-> "none"]

Raised(e) == [kind |-> "raise", value |-> <<>>, exc |-> e]

\* issubclass(e, c) for the exception classes that occur
IsSubclass(e, c) ==
    \/ e = c
    \/ c = "OSError" /\ e \in {"FileNotFoundError", "PermissionError"}
    \/ c = "ValueError" /\ e = "UnicodeDecodeError"
    \/ c = "Exception"

Catches(handlers, e) == \E c \in handlers : IsSubclass(e, c)

-----------------------------------------------------------------------------
(* xml.etree.ElementTree *)

MVN == "{mvn}"

Qualified(local) == <<MVN>> \o local

T_properties == <<"p","r","o","p","e","r","t","i","e","s">>
T_parent == <<"p","a","r","e","n","t">>
T_version == <<"v","e","r","s","i","o","n">>
T_dependencies == <<"d","e","p","e","n","d","e","n","c","i","e","s">>
T_dependency == <<"d","e","p","e","n","d","e","n","c","y">>
T_groupId == <<"g","r","o","u","p","I","d">>
T_artifactId == <<"a","r","t","i","f","a","c","t","I","d">>
T_project == <<"p","r","o","j","e","c","t">>

Element(tag, text, children) == [tag |-> tag, text |-> text, children |-> children]

\* findall('mvn:<local>', namespace): the direct children with that qualified tag
FindAll(node, local) ==
    SelectSeq(node.children, LAMBDA c : c.tag = Qualified(local))

\* find('mvn:<local>', namespace): the first such child, or None
Find(node, local) ==
    LET m == FindAll(node, local) IN IF m = <<>> THEN <<>> ELSE <<m[1]>>

\* ET.parse(path): what opening and parsing the file does
ETParse(file) ==
    CASE file.status = "missing" -> Raised("FileNotFoundError")
      [] file.status = "denied" -> Raised("PermissionError")
      [] file.status \in {"empty", "malformed", "undecodable"} -> Raised("ParseError")
      [] OTHER -> Returned(file.doc)

-----------------------------------------------------------------------------
(* parse_maven_pom *)

UNKNOWN == <<"U","N","K","N","O","W","N">>
NA == <<"N","/","A">>

\* str.replace(old, '') where old is the one symbol MVN
StripNamespace(tag) == SelectSeq(tag, LAMBDA ch : ch /= MVN)

\* the properties dict: a function from tag names to texts, a later child
\* of the same name overwriting an earlier one
RECURSIVE PropertiesFrom(_, _)
PropertiesFrom(props, i) ==
    IF i = 0 THEN <<>>
    ELSE LET rest == PropertiesFrom(props, i - 1)
             name == StripNamespace(props[i].tag)
         IN  [k \in DOMAIN rest \cup {name} |->
                 IF k = name THEN props[i].text ELSE rest[k]]

Properties(root) ==
    LET properties_node == Find(root, T_properties)
    IN  IF properties_node /= <<>>
        THEN PropertiesFrom(properties_node[1].children,
                            Len(properties_node[1].children))
        ELSE <<>>

\* properties.get(key, default)
DictGet(d, key, default) == IF key \in DOMAIN d THEN d[key] ELSE default

ParentVersion(root) ==
    LET parent_node == Find(root, T_parent)
    IN  IF parent_node /= <<>>
        THEN LET parent_version_node == Find(parent_node[1], T_version)
             IN  IF parent_version_node /= <<>>
                 THEN parent_version_node[1].text
                 ELSE None
        ELSE None

ResolvedVersionParentForEmpty(version, properties, parent_version) ==
    IF version /= <<>> /\ Truthy(version[1].text)
    THEN LET version_text == version[1].text
         IN  IF StartsWith(version_text, <<"$","{">>) /\ EndsWith(version_text, <<"}">>)
             THEN DictGet(properties, Slice2ToLast(version_text), UNKNOWN)
             ELSE version_text
    ELSE IF Truthy(parent_version) THEN parent_version ELSE None

\* lines 53-64: resolved_version, None when nothing resolved it
ResolvedVersion(version, properties, parent_version) ==
    IF version /= <<>>
    THEN LET version_text == version[1].text
         IN  IF Truthy(version_text) /\ StartsWith(version_text, <<"$","{">>)
                   /\ EndsWith(version_text, <<"}">>)
             THEN DictGet(properties, Slice2ToLast(version_text), UNKNOWN)
             ELSE version_text
    ELSE IF Truthy(parent_version) THEN parent_version ELSE None

\* line 69
OrNA(resolved_version) == IF Truthy(resolved_version) THEN resolved_version ELSE NA

\* line 52
Identified(group_id, artifact_id) == group_id /= <<>> /\ artifact_id /= <<>>

RECURSIVE MavenDependenciesPrepended(_, _, _, _)
MavenDependenciesPrepended(deps, i, properties, parent_version) ==
    IF i = 0 THEN <<>>
    ELSE LET dep == deps[i]
             group_id == Find(dep, T_groupId)
             artifact_id == Find(dep, T_artifactId)
             version == Find(dep, T_version)
             before == MavenDependenciesPrepended(deps, i - 1, properties, parent_version)
         IN  IF Identified(group_id, artifact_id)
             THEN <<[groupId |-> group_id[1].text,
                     artifactId |-> artifact_id[1].text,
                     version |-> OrNA(ResolvedVersion(version, properties,
                                                      parent_version))]>> \o before
             ELSE before

\* the body of the loop over the dependency elements, lines 47-70
RECURSIVE MavenDependencies(_, _, _, _)
MavenDependencies(deps, i, properties, parent_version) ==
    IF i = 0 THEN <<>>
    ELSE LET dep == deps[i]
             group_id == Find(dep, T_groupId)
             artifact_id == Find(dep, T_artifactId)
             version == Find(dep, T_version)
             before == MavenDependencies(deps, i - 1, properties, parent_version)
         IN  IF Identified(group_id, artifact_id)
             THEN Append(before,
                    [groupId |-> group_id[1].text,
                     artifactId |-> artifact_id[1].text,
                     version |-> OrNA(ResolvedVersion(version, properties,
                                                      parent_version))])
             ELSE before

ParseMavenPom(file) ==
    LET tree == ETParse(file)
    IN  IF tree.kind = "raise"
        THEN IF Catches({"ParseError", "FileNotFoundError"}, tree.exc)
             THEN Returned(<<>>)
             ELSE tree
        ELSE LET root == tree.value
                 dependencies_node == Find(root, T_dependencies)
             IN  IF dependencies_node /= <<>>
                 THEN Returned(MavenDependencies(
                          FindAll(dependencies_node[1], T_dependency),
                          Len(FindAll(dependencies_node[1], T_dependency)),
                          Properties(root), ParentVersion(root)))
                 ELSE Returned(<<>>)


-----------------------------------------------------------------------------
(* parse_pom of the multi-repository scanner *)

\* Element.iter() without the element itself: the descendants in document order
RECURSIVE Descendants(_)
RECURSIVE DescendantsOfAll(_, _)
Descendants(node) == DescendantsOfAll(node.children, 1)
DescendantsOfAll(children, i) ==
    IF i > Len(children) THEN <<>>
    ELSE <<children[i]>> \o Descendants(children[i])
             \o DescendantsOfAll(children, i + 1)

RECURSIVE ChildrenOfEach(_, _, _)
ChildrenOfEach(nodes, i, local) ==
    IF i > Len(nodes) THEN <<>>
    ELSE FindAll(nodes[i], local) \o ChildrenOfEach(nodes, i + 1, local)

\* root.findall(".//mvn:dependencies/mvn:dependency", namespace)
FindAllDeepDependency(root) ==
    ChildrenOfEach(
        SelectSeq(Descendants(root), LAMBDA e : e.tag = Qualified(T_dependencies)),
        1, T_dependency)

\* line 48
VersionOrNA(version) == IF version /= <<>> THEN version[1].text ELSE NA

RECURSIVE PomDependencies(_, _)
PomDependencies(deps, i) ==
    IF i = 0 THEN <<>>
    ELSE LET dependency == deps[i]
             group_id == Find(dependency, T_groupId)
             artifact_id == Find(dependency, T_artifactId)
             version == Find(dependency, T_version)
             before == PomDependencies(deps, i - 1)
         IN  IF group_id /= <<>> /\ artifact_id /= <<>>
             THEN Append(before,
                    [groupId |-> group_id[1].text,
                     artifactId |-> artifact_id[1].text,
                     version |-> VersionOrNA(version)])
             ELSE before

ParsePom(file) ==
    LET tree == ETParse(file)
    IN  IF tree.kind = "raise"
        THEN IF Catches({"ParseError"}, tree.exc) THEN Returned(<<>>) ELSE tree
        ELSE Returned(PomDependencies(FindAllDeepDependency(tree.value),
                                      Len(FindAllDeepDependency(tree.value))))

-----------------------------------------------------------------------------
(* Regular expressions over a str.  Positions are 1-based; a match is the   *)
(* sequence of zero or one records [end, groups], end being the position   *)
(* after the match.                                                        *)

Lower == {"a","b","c","d","e","f","g","h","i","j","k","l","m","n","o","p","q","r","s","t","u","v","w","x","y","z"}
Upper == {"A","B","C","D","E","F","G","H","I","J","K","L","M","N","O","P","Q","R","S","T","U","V","W","X","Y","Z"}
Digit == {"0","1","2","3","4","5","6","7","8","9"}

CoordCharsNoDot == Lower \cup Upper \cup Digit \cup {"_", "-"}

\* [a-zA-Z0-9\._-]
CoordChars == Lower \cup Upper \cup Digit \cup {".", "_", "-"}

\* \s
Space == {" ", "\t", "\n", "\r"}

\* ["']
Quote == {"'", "\""}

\* the character at position i, "" past the end
At(s, i) == IF i \in 1..Len(s) THEN s[i] ELSE ""

\* a literal at position i
Lit(s, i, lit) == i + Len(lit) - 1 <= Len(s) /\ SubSeq(s, i, i + Len(lit) - 1) = lit

\* C* at position i, greedy: the position after the longest run of C
RECURSIVE Run(_, _, _)
Run(s, i, C) == IF At(s, i) \in C THEN Run(s, i + 1, C) ELSE i

NoMatch == <<>>

Match(end, groups) == <<[end |-> end, groups |-> groups]>>

\* "needle in s"
RECURSIVE ContainsFrom(_, _, _)
ContainsFrom(s, needle, i) ==
    IF i + Len(needle) - 1 > Len(s) THEN FALSE
    ELSE Lit(s, i, needle) \/ ContainsFrom(s, needle, i + 1)

Contains(s, needle) == ContainsFrom(s, needle, 1)

-----------------------------------------------------------------------------
(* parse_gradle_build_file *)

\* the keyword alternation of the colon-triple alternative, in its order
TripleKeywords ==
    << <<"i","m","p","l","e","m","e","n","t","a","t","i","o","n">>,
      <<"a","p","i">>,
      <<"c","o","m","p","i","l","e","O","n","l","y">>,
      <<"r","u","n","t","i","m","e","O","n","l","y">>,
      <<"t","e","s","t","I","m","p","l","e","m","e","n","t","a","t","i","o","n">>,
      <<"t","e","s","t","C","o","m","p","i","l","e">>,
      <<"k","a","p","t">>,
      <<"c","l","a","s","s","p","a","t","h">>,
      <<"i","m","p","l","e","m","e","n","t","a","t","i","o","n","(">> >>

\* the keyword alternation of the named-argument alternative
NamedKeywords ==
    << <<"i","m","p","l","e","m","e","n","t","a","t","i","o","n">>,
      <<"a","p","i">>,
      <<"c","o","m","p","i","l","e","O","n","l","y">>,
      <<"r","u","n","t","i","m","e","O","n","l","y">>,
      <<"t","e","s","t","I","m","p","l","e","m","e","n","t","a","t","i","o","n">>,
      <<"t","e","s","t","C","o","m","p","i","l","e">>,
      <<"k","a","p","t">>,
      <<"c","l","a","s","s","p","a","t","h">> >>

\* the keyword alternation of kotlin_dependency_pattern
KotlinKeywords ==
    << <<"k","o","t","l","i","n">>,
      <<"i","m","p","l","e","m","e","n","t","a","t","i","o","n">>,
      <<"a","p","i">>,
      <<"c","o","m","p","i","l","e","O","n","l","y">>,
      <<"r","u","n","t","i","m","e","O","n","l","y">>,
      <<"t","e","s","t","I","m","p","l","e","m","e","n","t","a","t","i","o","n">> >>

\* line 95 after the keyword:
\*   [\s"']*(cls+):(cls+):(cls+(?:-\w+)*)["']*\)?
\* A run of cls is followed by a character outside cls, so the greedy run is
\* the only one that can be followed by ':' and (?:-\w+)* repeats zero times.
TripleRest(s, j) ==
    LET a == Run(s, j, Space \cup Quote)
        e1 == Run(s, a, CoordChars)
        e2 == Run(s, e1 + 1, CoordChars)
        e3 == Run(s, e2 + 1, CoordChars)
        q == Run(s, e3, Quote)
        end == IF At(s, q) = ")" THEN q + 1 ELSE q
    IN  IF /\ e1 > a /\ At(s, e1) = ":"
           /\ e2 > e1 + 1 /\ At(s, e2) = ":"
           /\ e3 > e2 + 1
        THEN Match(end, << SubSeq(s, a, e1 - 1), SubSeq(s, e1 + 1, e2 - 1),
                           SubSeq(s, e2 + 1, e3 - 1), None, None, None >>)
        ELSE NoMatch

\* line 96 after the keyword:
\*   \s+group:\s*['"](cls+)['"],\s*name:\s*['"](cls+)['"],\s*version:\s*['"](cls+)['"]
NamedRest(s, j) ==
    LET a == Run(s, j, Space)
        b == Run(s, a + 6, Space)
        e1 == Run(s, b + 1, CoordChars)
        c == Run(s, e1 + 2, Space)
        d == Run(s, c + 5, Space)
        e2 == Run(s, d + 1, CoordChars)
        f == Run(s, e2 + 2, Space)
        g == Run(s, f + 8, Space)
        e3 == Run(s, g + 1, CoordChars)
    IN  IF /\ a > j /\ Lit(s, a, <<"g","r","o","u","p",":">>)
           /\ At(s, b) \in Quote /\ e1 > b + 1 /\ At(s, e1) \in Quote
           /\ At(s, e1 + 1) = "," /\ Lit(s, c, <<"n","a","m","e",":">>)
           /\ At(s, d) \in Quote /\ e2 > d + 1 /\ At(s, e2) \in Quote
           /\ At(s, e2 + 1) = "," /\ Lit(s, f, <<"v","e","r","s","i","o","n",":">>)
           /\ At(s, g) \in Quote /\ e3 > g + 1 /\ At(s, e3) \in Quote
        THEN Match(e3 + 1, << None, None, None, SubSeq(s, b + 1, e1 - 1),
                              SubSeq(s, d + 1, e2 - 1), SubSeq(s, g + 1, e3 - 1) >>)
        ELSE NoMatch

\* line 99 after the keyword:
\*   \(["'](cls+):(cls+)["']\)\s+version\s+["'](cls+)["']
KotlinRest(s, j) ==
    LET e1 == Run(s, j + 2, CoordChars)
        e2 == Run(s, e1 + 1, CoordChars)
        a == Run(s, e2 + 2, Space)
        b == Run(s, a + 7, Space)
        e3 == Run(s, b + 1, CoordChars)
    IN  IF /\ At(s, j) = "(" /\ At(s, j + 1) \in Quote
           /\ e1 > j + 2 /\ At(s, e1) = ":"
           /\ e2 > e1 + 1 /\ At(s, e2) \in Quote /\ At(s, e2 + 1) = ")"
           /\ a > e2 + 2 /\ Lit(s, a, <<"v","e","r","s","i","o","n">>)
           /\ b > a + 7 /\ At(s, b) \in Quote
           /\ e3 > b + 1 /\ At(s, e3) \in Quote
        THEN Match(e3 + 1, << SubSeq(s, j + 2, e1 - 1), SubSeq(s, e1 + 1, e2 - 1),
                              SubSeq(s, b + 1, e3 - 1) >>)
        ELSE NoMatch

\* (?:k1|k2|...)rest at position i: the first keyword, in order, after which
\* the rest matches
RECURSIVE TripleAlt(_, _, _)
TripleAlt(s, i, n) ==
    IF n > Len(TripleKeywords) THEN NoMatch
    ELSE IF Lit(s, i, TripleKeywords[n])
              /\ TripleRest(s, i + Len(TripleKeywords[n])) /= NoMatch
         THEN TripleRest(s, i + Len(TripleKeywords[n]))
         ELSE TripleAlt(s, i, n + 1)

RECURSIVE NamedAlt(_, _, _)
NamedAlt(s, i, n) ==
    IF n > Len(NamedKeywords) THEN NoMatch
    ELSE IF Lit(s, i, NamedKeywords[n])
              /\ NamedRest(s, i + Len(NamedKeywords[n])) /= NoMatch
         THEN NamedRest(s, i + Len(NamedKeywords[n]))
         ELSE NamedAlt(s, i, n + 1)

RECURSIVE KotlinAlt(_, _, _)
KotlinAlt(s, i, n) ==
    IF n > Len(KotlinKeywords) THEN NoMatch
    ELSE IF Lit(s, i, KotlinKeywords[n])
              /\ KotlinRest(s, i + Len(KotlinKeywords[n])) /= NoMatch
         THEN KotlinRest(s, i + Len(KotlinKeywords[n]))
         ELSE KotlinAlt(s, i, n + 1)

\* dependency_pattern at position i: the colon-triple alternative, else the
\* named-argument one
DependencyPatternAt(s, i) ==
    IF TripleAlt(s, i, 1) /= NoMatch THEN TripleAlt(s, i, 1) ELSE NamedAlt(s, i, 1)

KotlinPatternAt(s, i) == KotlinAlt(s, i, 1)

\* dependency_pattern.finditer(content): the matches from left to right, the
\* scan going on where a match ended
RECURSIVE DependencyMatches(_, _)
DependencyMatches(s, i) ==
    IF i > Len(s) THEN <<>>
    ELSE LET m == DependencyPatternAt(s, i)
         IN  IF m /= NoMatch
             THEN m \o DependencyMatches(s, m[1].end)
             ELSE DependencyMatches(s, i + 1)

RECURSIVE KotlinMatches(_, _)
KotlinMatches(s, i) ==
    IF i > Len(s) THEN <<>>
    ELSE LET m == KotlinPatternAt(s, i)
         IN  IF m /= NoMatch
             THEN m \o KotlinMatches(s, m[1].end)
             ELSE KotlinMatches(s, i + 1)

\* lines 104-116
RECURSIVE DependencyRecords(_, _)
DependencyRecords(matches, k) ==
    IF k = 0 THEN <<>>
    ELSE LET g == matches[k].groups
             before == DependencyRecords(matches, k - 1)
         IN  IF Truthy(g[1]) /\ Truthy(g[2]) /\ Truthy(g[3])
             THEN Append(before, [groupId |-> g[1], artifactId |-> g[2], version |-> g[3]])
             ELSE IF Truthy(g[4]) /\ Truthy(g[5]) /\ Truthy(g[6])
             THEN Append(before, [groupId |-> g[4], artifactId |-> g[5], version |-> g[6]])
             ELSE before

\* lines 118-124
RECURSIVE KotlinRecords(_, _)
KotlinRecords(matches, k) ==
    IF k = 0 THEN <<>>
    ELSE LET g == matches[k].groups
         IN  Append(KotlinRecords(matches, k - 1),
                    [groupId |-> g[1], artifactId |-> g[2], version |-> g[3]])

\* open(path, 'r', encoding='utf-8') and f.read()
ReadText(file) ==
    CASE file.status = "missing" -> Raised("FileNotFoundError")
      [] file.status = "denied" -> Raised("PermissionError")
      [] file.status = "undecodable" -> Raised("UnicodeDecodeError")
      [] OTHER -> Returned(file.content)

ParseGradleBuildFile(file) ==
    LET content == ReadText(file)
    IN  IF content.kind = "raise"
        THEN IF Catches({"FileNotFoundError"}, content.exc)
             THEN Returned(<<>>)
             ELSE content
        ELSE LET matches == DependencyMatches(content.value, 1)
                 kotlin_matches == KotlinMatches(content.value, 1)
             IN  Returned(DependencyRecords(matches, Len(matches))
                          \o KotlinRecords(kotlin_matches, Len(kotlin_matches)))

-----------------------------------------------------------------------------
(* parse_gradle_file of the multi-repository scanner *)

\* the position of the first character of s in C at or after i, Len(s) + 1
\* when there is none
RECURSIVE Next_(_, _, _)
Next_(s, i, C) == IF i > Len(s) \/ s[i] \in C THEN i ELSE Next_(s, i + 1, C)

\* ['"]([^:]+):([^:]+):([^'"]+)['"] at position p.  [^:]+ cannot cross a
\* ':' and [^'"]+ cannot cross a quote, so each group ends at the first one.
QuotedTripleAt(s, p) ==
    LET c1 == Next_(s, p + 1, {":"})
        c2 == Next_(s, c1 + 1, {":"})
        q == Next_(s, c2 + 1, Quote)
    IN  IF /\ At(s, p) \in Quote
           /\ c1 > p + 1 /\ c1 <= Len(s)
           /\ c2 > c1 + 1 /\ c2 <= Len(s)
           /\ q > c2 + 1 /\ q <= Len(s)
        THEN Match(q + 1, << SubSeq(s, p + 1, c1 - 1), SubSeq(s, c1 + 1, c2 - 1),
                             SubSeq(s, c2 + 1, q - 1) >>)
        ELSE NoMatch

\* re.search: the match at the leftmost position that has one
RECURSIVE SearchQuotedTriple(_, _)
SearchQuotedTriple(s, p) ==
    IF p > Len(s) THEN NoMatch
    ELSE IF QuotedTripleAt(s, p) /= NoMatch THEN QuotedTripleAt(s, p)
    ELSE SearchQuotedTriple(s, p + 1)

\* "for line in f": the lines of the text, each with its newline
RECURSIVE Lines(_)
Lines(s) ==
    IF s = <<>> THEN <<>>
    ELSE LET n == Next_(s, 1, {"\n"})
         IN  IF n > Len(s) THEN <<s>>
             ELSE <<SubSeq(s, 1, n)>> \o Lines(SubSeq(s, n + 1, Len(s)))

\* lines 58-71
RECURSIVE GradleLineRecords(_, _)
GradleLineRecords(lines, k) ==
    IF k = 0 THEN <<>>
    ELSE LET line == lines[k]
             before == GradleLineRecords(lines, k - 1)
             match == SearchQuotedTriple(line, 1)
         IN  IF (Contains(line, <<"i","m","p","l","e","m","e","n","t","a","t","i","o","n">>)
                   \/ Contains(line, <<"c","o","m","p","i","l","e">>))
                /\ match /= NoMatch
             THEN Append(before, [groupId |-> match[1].groups[1],
                                  artifactId |-> match[1].groups[2],
                                  version |-> match[1].groups[3]])
             ELSE before

\* open(file_path, 'r') and the iteration over its lines: no handler
ParseGradleFile(file) ==
    LET content == ReadText(file)
    IN  IF content.kind = "raise" THEN content
        ELSE Returned(GradleLineRecords(Lines(content.value),
                                        Len(Lines(content.value))))

-----------------------------------------------------------------------------
(* The manifests the parsers are called on *)

\* what can be wrong with a descriptor file
FailingStatuses == {"missing", "denied", "empty", "malformed", "undecodable"}

RECURSIVE SeqsUpTo(_, _)
SeqsUpTo(S, n) ==
    IF n = 0 THEN {<<>>}
    ELSE LET shorter == SeqsUpTo(S, n - 1)
         IN  shorter \cup {Append(s, e) : s \in {t \in shorter : Len(t) = n - 1}, e \in S}

Leaf(local, text) == Element(Qualified(local), text, <<>>)

PropertyElements ==
    { Leaf(<<"x">>, None), Leaf(<<"x">>, <<"1",".","2">>),
      Leaf(<<"x">>, <<"$","{","y","}">>), Leaf(<<"y">>, <<"3">>) }

PropertiesBlocks ==
    {<<>>} \cup { <<Element(Qualified(T_properties), None, ps)>> :
                     ps \in SeqsUpTo(PropertyElements, MaxProps) }

ParentBlocks ==
    { <<>>,
      <<Element(Qualified(T_parent), None, <<>>)>>,
      <<Element(Qualified(T_parent), None, <<Leaf(T_version, None)>>)>>,
      <<Element(Qualified(T_parent), None, <<Leaf(T_version, <<"9",".","9">>)>>)>> }

G == Leaf(T_groupId, <<"g">>)
A == Leaf(T_artifactId, <<"a">>)
B == Leaf(T_artifactId, <<"b">>)

Dep(children) == Element(Qualified(T_dependency), None, children)

DependencyElements ==
    { Dep(<<Leaf(T_groupId, None), A>>),
      Dep(<<G, B, Leaf(T_version, None)>>),
      Dep(<<G, A, Leaf(T_version, <<"1",".","0">>)>>),
      Dep(<<G, B, Leaf(T_version, <<"$","{","x","}">>)>>),
      Dep(<<A, Leaf(T_version, <<"1",".","0">>)>>),
      Dep(<<G>>) }

T_dependencyManagement ==
    <<"d","e","p","e","n","d","e","n","c","y","M","a","n","a","g","e","m","e","n","t">>

\* a dependencies block that is not a child of the root
ManagementBlock ==
    <<Element(Qualified(T_dependencyManagement), None,
        <<Element(Qualified(T_dependencies), None,
            <<Dep(<<G, A, Leaf(T_version, <<"7">>)>>)>>)>>)>>

\* no dependencies block, a root-level one, or a nested one before a short
\* root-level one
DependenciesBlocks ==
    {<<>>, ManagementBlock}
    \cup { <<Element(Qualified(T_dependencies), None, ds)>> :
             ds \in SeqsUpTo(DependencyElements, MaxDeps) }
    \cup { ManagementBlock \o <<Element(Qualified(T_dependencies), None, ds)>> :
             ds \in SeqsUpTo(DependencyElements, 1) }

Documents ==
    { Element(Qualified(T_project), None, pr \o pa \o d) :
        pr \in PropertiesBlocks, pa \in ParentBlocks, d \in DependenciesBlocks }

NoDocument == Element(<<>>, None, <<>>)

NoParts == [kw |-> <<>>, g |-> <<>>, a |-> <<>>, v |-> <<>>]

\* a descriptor file: what opening it does (status), its document when it is
\* a manifest, its text when it is a build file; form and parts tell how the
\* text of a build file was put together
File(status, doc, content) ==
    [status |-> status, doc |-> doc, content |-> content,
     form |-> "other", parts |-> NoParts]

PomFiles ==
    { File("ok", d, <<>>) : d \in Documents }
    \cup { File(st, NoDocument, <<>>) : st \in FailingStatuses }

-----------------------------------------------------------------------------
(* The build files the parsers are called on *)

DeclKeywords ==
    { TripleKeywords[n] : n \in 1..(Len(TripleKeywords) - 1) } \cup {<<"c","o","m","p","i","l","e">>}

Groups == {<<"c","o","m",".","e","x","a","m","p","l","e">>, <<"x","a","p","i",".","c">>}
Artifacts == {<<"l","i","b">>, <<"a","-","b","_","c">>}
Versions == {<<"1",".","0",".","0">>, <<"2","-","a","l","p","h","a","0","1">>, <<"1",".","+">>, <<"+">>}

\* keyword 'group:artifact:version'
TripleDecl(kw, q, g, a, v) == kw \o <<" ">> \o <<q>> \o g \o <<":">> \o a \o <<":">> \o v \o <<q>>

\* keyword group: 'g', name: 'a', version: 'v'
NamedDecl(kw, q, g, a, v) ==
    kw \o <<" ","g","r","o","u","p",":"," ">> \o <<q>> \o g \o <<q>> \o <<","," ","n","a","m","e",":"," ">> \o <<q>> \o a \o <<q>>
       \o <<","," ","v","e","r","s","i","o","n",":"," ">> \o <<q>> \o v \o <<q>>

\* keyword("group:artifact") version "v"
AliasedDecl(kw, q, g, a, v) ==
    kw \o <<"(">> \o <<q>> \o g \o <<":">> \o a \o <<q>> \o <<")">> \o <<" ","v","e","r","s","i","o","n"," ">> \o <<q>> \o v \o <<q>>

\* keyword('group:artifact:version')
CallDecl(kw, q, g, a, v) ==
    kw \o <<"(">> \o <<q>> \o g \o <<":">> \o a \o <<":">> \o v \o <<q>> \o <<")">>

TripleFiles ==
    { [status |-> "ok", doc |-> NoDocument, form |-> "triple",
       content |-> TripleDecl(kw, q, g, a, v),
       parts |-> [kw |-> kw, g |-> g, a |-> a, v |-> v]] :
        kw \in DeclKeywords, q \in Quote, g \in Groups, a \in Artifacts, v \in Versions }

OtherContents ==
    { <<>>,
      <<"i","m","p","l","e","m","e","n","t","a","t","i","o","n"," ","p","r","o","j","e","c","t","(","'",":","m","o","d","'",")">>,
      <<"i","m","p","l","e","m","e","n","t","a","t","i","o","n","(","p","r","o","j","e","c","t","(","'",":","a",":","b",":","c","'",")",")">>,
      <<"/","/"," ","n","o"," ","d","e","p","e","n","d","e","n","c","y"," ","h","e","r","e","\n">>,
      NamedDecl(<<"i","m","p","l","e","m","e","n","t","a","t","i","o","n">>, "'", <<"g">>, <<"a">>, <<"2",".","0",".","0">>),
      NamedDecl(<<"a","p","i">>, "\"", <<"g">>, <<"a">>, <<"2",".","0",".","0">>),
      AliasedDecl(<<"k","o","t","l","i","n">>, "\"", <<"g">>, <<"a">>, <<"1",".","9">>),
      AliasedDecl(<<"i","m","p","l","e","m","e","n","t","a","t","i","o","n">>, "\"", <<"g">>, <<"a">>, <<"1",".","9">>),
      CallDecl(<<"i","m","p","l","e","m","e","n","t","a","t","i","o","n">>, "'", <<"g">>, <<"a">>, <<"1">>),
      CallDecl(<<"a","p","i">>, "'", <<"c","o","m",".","a","p","i","x">>, <<"a">>, <<"1">>),
      TripleDecl(<<"i","m","p","l","e","m","e","n","t","a","t","i","o","n">>, "'", <<"g">>, <<"a">>, <<"1">>) \o <<"\n">>
        \o TripleDecl(<<"t","e","s","t","C","o","m","p","i","l","e">>, "\"", <<"h">>, <<"b">>, <<"2">>) \o <<"\n">> }

GradleFiles ==
    TripleFiles
    \cup { File("ok", NoDocument, c) : c \in OtherContents }
    \cup { File(st, NoDocument, <<>>) : st \in FailingStatuses }

-----------------------------------------------------------------------------
(* The parsers, each called on one descriptor file *)

NotCalled == [kind |-> "none", value |-> <<>>, exc |-> "none"]

NoFile == File("none", NoDocument, <<>>)

NoMulti ==
    /\ repo = 0
    /\ all_dependencies = <<>>
    /\ csvfile = None

NoScan ==
    /\ pc = "none"
    /\ dirsLeft = 0
    /\ walk_root = 0
    /\ files = <<>>
    /\ found = <<>>
    /\ project_dependencies = <<>>
    /\ writes = <<>>
    /\ noDepsLines = 0
    /\ NoMulti

InitParsers ==
    /\ \/ pomFile \in PomFiles /\ gradleFile = NoFile
       \/ pomFile = NoFile /\ gradleFile \in GradleFiles
    /\ parser = "none"
    /\ outcome = NotCalled
    /\ NoScan

CallParseMavenPom ==
    /\ parser = "none"
    /\ pomFile /= NoFile
    /\ parser' = "parse_maven_pom"
    /\ outcome' = ParseMavenPom(pomFile)
    /\ UNCHANGED <<pomFile, gradleFile, scanVars, multiVars>>

CallParsePom ==
    /\ parser = "none"
    /\ pomFile /= NoFile
    /\ parser' = "parse_pom"
    /\ outcome' = ParsePom(pomFile)
    /\ UNCHANGED <<pomFile, gradleFile, scanVars, multiVars>>

CallParseGradleBuildFile ==
    /\ parser = "none"
    /\ gradleFile /= NoFile
    /\ parser' = "parse_gradle_build_file"
    /\ outcome' = ParseGradleBuildFile(gradleFile)
    /\ UNCHANGED <<pomFile, gradleFile, scanVars, multiVars>>

CallParseGradleFile ==
    /\ parser = "none"
    /\ gradleFile /= NoFile
    /\ parser' = "parse_gradle_file"
    /\ outcome' = ParseGradleFile(gradleFile)
    /\ UNCHANGED <<pomFile, gradleFile, scanVars, multiVars>>

NextParsers ==
    \/ CallParseMavenPom
    \/ CallParsePom
    \/ CallParseGradleBuildFile
    \/ CallParseGradleFile

SpecParsers == InitParsers /\ [][NextParsers]_vars

-----------------------------------------------------------------------------
(* generate_dependency_report and main of the single-repository scanner *)

N_pom == <<"p","o","m",".","x","m","l">>
N_gradle == <<"b","u","i","l","d",".","g","r","a","d","l","e">>
N_kts == <<"b","u","i","l","d",".","g","r","a","d","l","e",".","k","t","s">>

\* the files of the scanned trees
OnePom ==
    File("ok",
         Element(Qualified(T_project), None,
            <<Element(Qualified(T_dependencies), None,
                <<Dep(<<G, A, Leaf(T_version, <<"1",".","0">>)>>)>>)>>),
         <<>>)

EmptyPom ==
    File("ok",
         Element(Qualified(T_project), None,
            <<Element(Qualified(T_dependencies), None, <<Dep(<<G>>)>>)>>),
         <<>>)

BadFile(st) == File(st, NoDocument, <<>>)

OneGradle ==
    File("ok", NoDocument,
         TripleDecl(<<"i","m","p","l","e","m","e","n","t","a","t","i","o","n">>, "'", <<"h">>, <<"b">>, <<"2">>))

EmptyGradle ==
    File("ok", NoDocument,
         <<"i","m","p","l","e","m","e","n","t","a","t","i","o","n"," ","p","r","o","j","e","c","t","(","'",":","m","o","d","'",")">>)

Entry(name, file) == [name |-> name, file |-> file]

ScanEntries ==
    { Entry(N_pom, f) : f \in {OnePom, EmptyPom, BadFile("malformed"), BadFile("denied")} }
    \cup { Entry(N_gradle, f) : f \in {OneGradle, EmptyGradle, BadFile("undecodable")} }
    \cup { Entry(N_kts, OneGradle),
           Entry(<<"a","p","p","-","b","u","i","l","d",".","g","r","a","d","l","e">>, EmptyGradle),
           Entry(<<"R","E","A","D","M","E",".","m","d">>, NoFile) }

\* a directory's files: their names differ
Listings(entries) ==
    { l \in SeqsUpTo(entries, MaxFiles) :
        \A i, j \in 1..Len(l) : i /= j => l[i].name /= l[j].name }

\* the directories os.walk can yield
ScanListings == Listings(ScanEntries)

LastDescriptor(fs, i) ==
    LET D == { k \in 1..Len(fs) :
                 \/ fs[k].name = N_pom
                 \/ EndsWith(fs[k].name, N_gradle)
                 \/ EndsWith(fs[k].name, N_kts) }
    IN  IF D = {} THEN 0 ELSE CHOOSE k \in D : \A m \in D : m <= k

\* lines 135-151: the position of the file the loop breaks at, 0 when it
\* runs to the end
RECURSIVE FirstDescriptor(_, _)
FirstDescriptor(fs, i) ==
    IF i > Len(fs) THEN 0
    ELSE IF fs[i].name = N_pom THEN i
    ELSE IF EndsWith(fs[i].name, N_gradle) \/ EndsWith(fs[i].name, N_kts) THEN i
    ELSE FirstDescriptor(fs, i + 1)

\* lines 136-139 and 144-147: the parser the file name selects
Dispatch(entry) ==
    IF entry.name = N_pom
    THEN [kind |-> "Maven", deps |-> ParseMavenPom(entry.file)]
    ELSE [kind |-> "Gradle", deps |-> ParseGradleBuildFile(entry.file)]

\* what the parser gives for each file of the scanned trees
Dispatched == [e \in ScanEntries |-> Dispatch(e)]

StoreAlways(pd, r, deps) == [k \in DOMAIN pd \cup {r} |-> IF k = r THEN deps ELSE pd[k]]

\* lines 140-141 and 148-149
Store(pd, r, deps) ==
    IF TruthyList(deps)
    THEN [k \in DOMAIN pd \cup {r} |-> IF k = r THEN deps ELSE pd[k]]
    ELSE pd

Count(w, r) == IF r \in DOMAIN w THEN w[r] ELSE 0

NoParsers ==
    /\ pomFile = NoFile
    /\ gradleFile = NoFile
    /\ parser = "none"
    /\ outcome = NotCalled

\* generate_dependency_report(clone_dir) is called on a tree of dirsLeft
\* directories
InitScan ==
    /\ NoParsers
    /\ pc = "walk"
    /\ dirsLeft \in 0..MaxDirs
    /\ walk_root = 0
    /\ files = <<>>
    /\ found = <<>>
    /\ project_dependencies = <<>>
    /\ writes = <<>>
    /\ noDepsLines = 0
    /\ NoMulti

\* one iteration of the os.walk loop, lines 133-151: the directory has no
\* descriptor, or the parser of its first one returns
VisitDirectory ==
    /\ pc = "walk"
    /\ dirsLeft > 0
    /\ \E l \in ScanListings :
         LET i == FirstDescriptor(l, 1)
         IN  /\ IF i = 0 THEN TRUE ELSE Dispatched[l[i]].deps.kind = "return"
             /\ walk_root' = walk_root + 1
             /\ files' = l
             /\ dirsLeft' = dirsLeft - 1
             /\ IF i = 0
                THEN UNCHANGED <<found, project_dependencies, writes>>
                ELSE LET d == Dispatched[l[i]]
                     IN  /\ found' = Append(found, [dir |-> walk_root', kind |-> d.kind,
                                                    name |-> l[i].name])
                         /\ project_dependencies' =
                                Store(project_dependencies, walk_root', d.deps.value)
                         /\ writes' =
                                IF project_dependencies' = project_dependencies
                                THEN writes
                                ELSE [k \in DOMAIN writes \cup {walk_root'} |->
                                        IF k = walk_root' THEN Count(writes, k) + 1
                                        ELSE writes[k]]
    /\ UNCHANGED <<pc, noDepsLines, parserVars, multiVars>>

\* the same iteration when the parser raises: nothing between the parser and
\* the caller of main handles it
VisitDirectoryRaises ==
    /\ pc = "walk"
    /\ dirsLeft > 0
    /\ \E l \in ScanListings :
         LET i == FirstDescriptor(l, 1)
         IN  /\ IF i = 0 THEN FALSE ELSE Dispatched[l[i]].deps.kind = "raise"
             /\ walk_root' = walk_root + 1
             /\ files' = l
             /\ found' = Append(found, [dir |-> walk_root', kind |-> Dispatched[l[i]].kind,
                                        name |-> l[i].name])
    /\ pc' = "raised"
    /\ UNCHANGED <<dirsLeft, project_dependencies, writes, noDepsLines, parserVars, multiVars>>

\* line 163
ReturnReport ==
    /\ pc = "walk"
    /\ dirsLeft = 0
    /\ pc' = "returned"
    /\ UNCHANGED <<dirsLeft, walk_root, files, found, project_dependencies, writes,
                   noDepsLines, parserVars, multiVars>>

\* main, lines 176-178
MainNoProjects ==
    /\ pc = "returned"
    /\ ~TruthyDict(project_dependencies)
    /\ pc' = "exit"
    /\ UNCHANGED <<dirsLeft, walk_root, files, found, project_dependencies, writes,
                   noDepsLines, parserVars, multiVars>>

\* main, lines 180-187: the printed report
MainPrintReport ==
    /\ pc = "returned"
    /\ TruthyDict(project_dependencies)
    /\ noDepsLines' = Cardinality({ k \in DOMAIN project_dependencies :
                                      ~TruthyList(project_dependencies[k]) })
    /\ pc' = "printed"
    /\ UNCHANGED <<dirsLeft, walk_root, files, found, project_dependencies, writes,
                   parserVars, multiVars>>

NextScan ==
    \/ VisitDirectory
    \/ VisitDirectoryRaises
    \/ ReturnReport
    \/ MainNoProjects
    \/ MainPrintReport

SpecScan == InitScan /\ [][NextScan]_vars

-----------------------------------------------------------------------------
(* main of the multi-repository scanner and its CSV report *)

\* lines 8-12
repositories ==
    << <<"h","t","t","p","s",":","/","/","g","i","t","h","u","b",".","c","o","m","/","y","o","u","r","-","o","r","g","/","r","e","p","o","1",".","g","i","t">>,
       <<"h","t","t","p","s",":","/","/","g","i","t","h","u","b",".","c","o","m","/","y","o","u","r","-","o","r","g","/","r","e","p","o","2",".","g","i","t">>,
       <<"h","t","t","p","s",":","/","/","g","i","t","h","u","b",".","c","o","m","/","y","o","u","r","-","o","r","g","/","r","e","p","o","3",".","g","i","t">> >>

\* line 18
csv_columns ==
    << <<"R","e","p","o","s","i","t","o","r","y">>, <<"F","i","l","e">>, <<"G","r","o","u","p"," ","I","D">>, <<"A","r","t","i","f","a","c","t"," ","I","D">>, <<"V","e","r","s","i","o","n">> >>

\* s.split('/')[-1]
LastSegment(s) ==
    LET slashes == { i \in 1..Len(s) : s[i] = "/" }
    IN  IF slashes = {} THEN s
        ELSE SubSeq(s, (CHOOSE i \in slashes : \A j \in slashes : j <= i) + 1, Len(s))

\* s.replace(old, '')
RECURSIVE Remove(_, _)
Remove(s, old) ==
    IF s = <<>> THEN <<>>
    ELSE IF Lit(s, 1, old) THEN Remove(SubSeq(s, Len(old) + 1, Len(s)), old)
    ELSE <<s[1]>> \o Remove(Tail(s), old)

\* line 80
RepoName(repo_url) == Remove(LastSegment(repo_url), <<".","g","i","t">>)

DigitChars == <<"1","2","3","4","5","6","7","8","9">>

\* os.path.relpath(os.path.join(root, file), clone_dir): the clone directory
\* itself is walked first, the k-th directory after it is its subdirectory mk
RelPath(k, file) == IF k = 1 THEN file ELSE <<"m", DigitChars[k], "/">> \o file

\* lines 90-96 and 100-106: the rows of one descriptor's records
RECURSIVE Rows(_, _, _, _)
Rows(repo_name, path, deps, k) ==
    IF k = 0 THEN <<>>
    ELSE Append(Rows(repo_name, path, deps, k - 1),
                << repo_name, path, deps[k].groupId, deps[k].artifactId,
                   deps[k].version >>)

\* lines 85-106: the loop over the files of one directory; it has no break,
\* and an exception of a parser ends it
RECURSIVE FileRows(_, _, _, _)
FileRows(repo_name, k, fs, i) ==
    IF i > Len(fs) THEN Returned(<<>>)
    ELSE LET deps == IF fs[i].name = N_pom THEN ParsePom(fs[i].file)
                     ELSE IF fs[i].name = N_gradle THEN ParseGradleFile(fs[i].file)
                     ELSE Returned(<<>>)
             rest == FileRows(repo_name, k, fs, i + 1)
         IN  IF deps.kind = "raise" THEN deps
             ELSE IF rest.kind = "raise" THEN rest
             ELSE Returned(Rows(repo_name, RelPath(k, fs[i].name), deps.value,
                                Len(deps.value)) \o rest.value)

\* csv.writer, the default dialect: a field that holds the delimiter, the
\* quote character or a character of the line terminator is quoted, its
\* quote characters doubled; None is written as the empty field
RECURSIVE DoubleQuotes(_)
DoubleQuotes(v) ==
    IF v = <<>> THEN <<>>
    ELSE (IF v[1] = "\"" THEN <<"\"", "\"">> ELSE <<v[1]>>) \o DoubleQuotes(Tail(v))

CsvField(v) ==
    IF v = None THEN <<>>
    ELSE IF \E i \in 1..Len(v) : v[i] \in {",", "\"", "\r", "\n"}
    THEN <<"\"">> \o DoubleQuotes(v) \o <<"\"">>
    ELSE v

RECURSIVE CsvJoin(_, _)
CsvJoin(row, k) ==
    IF k = 0 THEN <<>>
    ELSE IF k = 1 THEN CsvField(row[1])
    ELSE CsvJoin(row, k - 1) \o <<",">> \o CsvField(row[k])

CsvLine(row) == CsvJoin(row, Len(row)) \o <<"\r", "\n">>

RECURSIVE CsvLines(_, _)
CsvLines(rows, k) ==
    IF k = 0 THEN <<>> ELSE CsvLines(rows, k - 1) \o CsvLine(rows[k])

\* lines 112-115: writeheader and writerows
CsvText(rows) == CsvLine(csv_columns) \o CsvLines(rows, Len(rows))

\* csv.reader over the written text, the default dialect.  One field from
\* position i: st is "start" (at the start of the field), "field" (in an
\* unquoted field), "quoted" (in a quoted field) or "quote" (after a quote
\* character in a quoted field); at is where the field ended
RECURSIVE CsvReadField(_, _, _, _)
CsvReadField(text, i, st, field) ==
    IF i > Len(text) THEN [field |-> field, at |-> i]
    ELSE IF st = "quoted"
    THEN IF text[i] = "\"" THEN CsvReadField(text, i + 1, "quote", field)
         ELSE CsvReadField(text, i + 1, "quoted", Append(field, text[i]))
    ELSE IF st = "quote" /\ text[i] = "\""
    THEN CsvReadField(text, i + 1, "quoted", Append(field, text[i]))
    ELSE IF text[i] \in {",", "\r", "\n"} THEN [field |-> field, at |-> i]
    ELSE IF st = "start" /\ text[i] = "\""
    THEN CsvReadField(text, i + 1, "quoted", field)
    ELSE CsvReadField(text, i + 1, "field", Append(field, text[i]))

\* one record from position i: its fields, and where the next one starts
RECURSIVE CsvReadRecord(_, _, _)
CsvReadRecord(text, i, row) ==
    LET f == CsvReadField(text, i, "start", <<>>)
    IN  IF At(text, f.at) = ","
        THEN CsvReadRecord(text, f.at + 1, Append(row, f.field))
        ELSE [row |-> Append(row, f.field),
              next |-> IF At(text, f.at) = "\r" /\ At(text, f.at + 1) = "\n"
                       THEN f.at + 2 ELSE f.at + 1]

RECURSIVE CsvRead(_, _)
CsvRead(text, i) ==
    IF i > Len(text) THEN <<>>
    ELSE <<CsvReadRecord(text, i, <<>>).row>>
            \o CsvRead(text, CsvReadRecord(text, i, <<>>).next)

\* csv.DictReader: the rows after the header row
CsvReadRows(text) == Tail(CsvRead(text, 1))

\* the files of the scanned repositories
EmptyVersionPom ==
    File("ok",
         Element(Qualified(T_project), None,
            <<Element(Qualified(T_dependencies), None,
                <<Dep(<<G, A, Leaf(T_version, None)>>)>>)>>),
         <<>>)

CommaGradle ==
    File("ok", NoDocument, <<"i","m","p","l","e","m","e","n","t","a","t","i","o","n"," ","\"","x","\"",","," ","'","g",":","a",":","1","'","\n">>)

MultiEntries ==
    { Entry(N_pom, f) : f \in {EmptyVersionPom, BadFile("malformed"), BadFile("missing")} }
    \cup { Entry(N_gradle, f) : f \in {CommaGradle, BadFile("denied")} }
    \cup { Entry(<<"R","E","A","D","M","E",".","m","d">>, NoFile) }

InitMulti ==
    /\ NoParsers
    /\ pc = "clone"
    /\ repo = 1
    /\ dirsLeft = 0
    /\ walk_root = 0
    /\ files = <<>>
    /\ found = <<>>
    /\ project_dependencies = <<>>
    /\ writes = <<>>
    /\ noDepsLines = 0
    /\ all_dependencies = <<>>
    /\ csvfile = None

\* clone_repo returns True: os.walk will yield the clone directory and its
\* subdirectories
CloneRepo ==
    /\ pc = "clone"
    /\ repo <= Len(repositories)
    /\ pc' = "walk"
    /\ dirsLeft' \in 1..MaxDirs
    /\ walk_root' = 0
    /\ UNCHANGED <<repo, all_dependencies, csvfile, files, found,
                   project_dependencies, writes, noDepsLines, parserVars>>

\* clone_repo returns False, lines 25-27: the repository is skipped
CloneFails ==
    /\ pc = "clone"
    /\ repo <= Len(repositories)
    /\ repo' = repo + 1
    /\ UNCHANGED <<pc, all_dependencies, csvfile, dirsLeft, walk_root, files, found,
                   project_dependencies, writes, noDepsLines, parserVars>>

\* one iteration of the os.walk loop, lines 84-106
VisitRepoDirectory ==
    /\ pc = "walk"
    /\ repo > 0
    /\ dirsLeft > 0
    /\ \E l \in Listings(MultiEntries) :
         LET rows == FileRows(RepoName(repositories[repo]), walk_root + 1, l, 1)
         IN  /\ rows.kind = "return"
             /\ all_dependencies' = all_dependencies \o rows.value
    /\ walk_root' = walk_root + 1
    /\ dirsLeft' = dirsLeft - 1
    /\ UNCHANGED <<pc, repo, csvfile, files, found, project_dependencies, writes,
                   noDepsLines, parserVars>>

\* the same iteration when a parser raises: main handles no exception
VisitRepoDirectoryRaises ==
    /\ pc = "walk"
    /\ repo > 0
    /\ dirsLeft > 0
    /\ \E l \in Listings(MultiEntries) :
         FileRows(RepoName(repositories[repo]), walk_root + 1, l, 1).kind = "raise"
    /\ walk_root' = walk_root + 1
    /\ pc' = "raised"
    /\ UNCHANGED <<repo, all_dependencies, csvfile, dirsLeft, files, found,
                   project_dependencies, writes, noDepsLines, parserVars>>

\* line 109, and the next repository
RemoveClone ==
    /\ pc = "walk"
    /\ repo > 0
    /\ dirsLeft = 0
    /\ pc' = "clone"
    /\ repo' = repo + 1
    /\ UNCHANGED <<all_dependencies, csvfile, dirsLeft, walk_root, files, found,
                   project_dependencies, writes, noDepsLines, parserVars>>

\* lines 112-115
WriteCsvReport ==
    /\ pc = "clone"
    /\ repo > Len(repositories)
    /\ csvfile' = CsvText(all_dependencies)
    /\ pc' = "written"
    /\ UNCHANGED <<repo, all_dependencies, dirsLeft, walk_root, files, found,
                   project_dependencies, writes, noDepsLines, parserVars>>

NextMulti ==
    \/ CloneRepo
    \/ CloneFails
    \/ VisitRepoDirectory
    \/ VisitRepoDirectoryRaises
    \/ RemoveClone
    \/ WriteCsvReport

SpecMulti == InitMulti /\ [][NextMulti]_vars

-----------------------------------------------------------------------------
(* What a manifest declares, read off the document itself *)

HasChild(e, local) == \E i \in 1..Len(e.children) : e.children[i].tag = Qualified(local)

FirstChild(e, local) ==
    e.children[CHOOSE i \in 1..Len(e.children) :
                  /\ e.children[i].tag = Qualified(local)
                  /\ \A j \in 1..(i - 1) : e.children[j].tag /= Qualified(local)]

LastChild(e, local) ==
    e.children[CHOOSE i \in 1..Len(e.children) :
                  /\ e.children[i].tag = Qualified(local)
                  /\ \A j \in (i + 1)..Len(e.children) : e.children[j].tag /= Qualified(local)]

\* the dependency elements of the root-level dependencies block
Declared ==
    IF HasChild(pomFile.doc, T_dependencies)
    THEN FirstChild(pomFile.doc, T_dependencies).children
    ELSE <<>>

IdentifiedIdx ==
    { i \in 1..Len(Declared) :
        HasChild(Declared[i], T_groupId) /\ HasChild(Declared[i], T_artifactId) }

\* the position of the record of the i-th declared dependency
RecordIdx(i) == Cardinality({ j \in IdentifiedIdx : j <= i })

RecordOf(i) == outcome.value[RecordIdx(i)]

IsRef(text) ==
    /\ text /= None
    /\ Len(text) >= 3
    /\ text[1] = "$" /\ text[2] = "{" /\ text[Len(text)] = "}"

RefName(text) == [j \in 1..(Len(text) - 3) |-> text[j + 2]]

IsKey(name) ==
    /\ HasChild(pomFile.doc, T_properties)
    /\ HasChild(FirstChild(pomFile.doc, T_properties), name)

ValueOf(name) == LastChild(FirstChild(pomFile.doc, T_properties), name).text

HasParentVersion ==
    /\ HasChild(pomFile.doc, T_parent)
    /\ HasChild(FirstChild(pomFile.doc, T_parent), T_version)

ParentVersionText == FirstChild(FirstChild(pomFile.doc, T_parent), T_version).text

MavenReturned ==
    /\ parser = "parse_maven_pom"
    /\ pomFile.status = "ok"
    /\ outcome.kind = "return"
    /\ Len(outcome.value) = Cardinality(IdentifiedIdx)

RefDeps ==
    { i \in IdentifiedIdx :
        /\ HasChild(Declared[i], T_version)
        /\ IsRef(FirstChild(Declared[i], T_version).text) }

NoVersionDeps == { i \in IdentifiedIdx : ~HasChild(Declared[i], T_version) }

-----------------------------------------------------------------------------
(* C1, as stated: a dependency of parse_maven_pom whose version is ${name}  *)
(* gets the value v of property name, whatever v is, and UNKNOWN when name  *)
(* is no key of the properties block.                                      *)
C1_PropertyValueVerbatim ==
    (parser = "parse_maven_pom" /\ pomFile.status = "ok") =>
        /\ MavenReturned
        /\ \A i \in RefDeps :
             LET name == RefName(FirstChild(Declared[i], T_version).text)
             IN  IF IsKey(name)
                 THEN RecordOf(i).version = ValueOf(name)
                 ELSE RecordOf(i).version = UNKNOWN

(* C1, amended: a dependency of parse_maven_pom whose version is ${name}    *)
(* gets the value v of property name when v is not empty (v itself may be  *)
(* ${other}: it is not resolved further), N/A when v is empty, and UNKNOWN  *)
(* when name is no key of the properties block.                            *)
C1_PropertySubstitution ==
    (parser = "parse_maven_pom" /\ pomFile.status = "ok") =>
        /\ MavenReturned
        /\ \A i \in RefDeps :
             LET name == RefName(FirstChild(Declared[i], T_version).text)
             IN  IF IsKey(name)
                 THEN IF ValueOf(name) = None
                      THEN RecordOf(i).version = NA
                      ELSE RecordOf(i).version = ValueOf(name)
                 ELSE RecordOf(i).version = UNKNOWN

C1_Witness ==
    /\ MavenReturned
    /\ \E i \in RefDeps :
         LET name == RefName(FirstChild(Declared[i], T_version).text)
         IN  /\ IsKey(name)
             /\ IsRef(ValueOf(name))
             /\ IsKey(RefName(ValueOf(name)))
             /\ RecordOf(i).version = ValueOf(name)

(* C2, as stated: a dependency of parse_maven_pom without a version element *)
(* gets the text of the parent's version element when there is one, and    *)
(* N/A when there is none.                                                 *)
C2_ParentVersionVerbatim ==
    (parser = "parse_maven_pom" /\ pomFile.status = "ok") =>
        /\ MavenReturned
        /\ \A i \in NoVersionDeps :
             IF HasParentVersion
             THEN RecordOf(i).version = ParentVersionText
             ELSE RecordOf(i).version = NA

(* C2, amended: a dependency of parse_maven_pom without a version element   *)
(* gets the text of the parent's version element when there is one and it  *)
(* is not empty, and N/A otherwise; a dependency with a version element    *)
(* never takes the parent version: an empty one gives N/A, a literal one   *)
(* its own text.                                                           *)
C2_ParentInheritance ==
    (parser = "parse_maven_pom" /\ pomFile.status = "ok") =>
        /\ MavenReturned
        /\ \A i \in NoVersionDeps :
             IF HasParentVersion /\ ParentVersionText /= None
             THEN RecordOf(i).version = ParentVersionText
             ELSE RecordOf(i).version = NA
        /\ \A i \in IdentifiedIdx \ (NoVersionDeps \cup RefDeps) :
             LET text == FirstChild(Declared[i], T_version).text
             IN  RecordOf(i).version = IF text = None THEN NA ELSE text

C2_Witness ==
    /\ MavenReturned
    /\ HasParentVersion
    /\ ParentVersionText /= None
    /\ \E i \in NoVersionDeps : RecordOf(i).version = ParentVersionText
    /\ \E i \in IdentifiedIdx \ (NoVersionDeps \cup RefDeps) :
         /\ FirstChild(Declared[i], T_version).text = None
         /\ RecordOf(i).version = NA

(* C3: every record a manifest parser (parse_maven_pom, parse_pom) returns  *)
(* has a populated version: a non-empty string, never None or empty.       *)
C3_VersionPopulated ==
    outcome.kind = "return" =>
        \A k \in 1..Len(outcome.value) : Truthy(outcome.value[k].version)

(* C4: parse_maven_pom returns one record for each dependency element of    *)
(* the root-level dependencies block that has a groupId and an artifactId, *)
(* none for the others, in document order.                                 *)
C4_OneRecordPerIdentified ==
    (parser = "parse_maven_pom" /\ pomFile.status = "ok") =>
        /\ MavenReturned
        /\ \A i \in IdentifiedIdx :
             /\ RecordOf(i).groupId = FirstChild(Declared[i], T_groupId).text
             /\ RecordOf(i).artifactId = FirstChild(Declared[i], T_artifactId).text

C4_Witness ==
    /\ MavenReturned
    /\ Len(Declared) = 2
    /\ IdentifiedIdx = {2}
    /\ Len(outcome.value) = 1

(* C6: parse_maven_pom and parse_gradle_build_file return an empty list,    *)
(* and raise nothing, on a descriptor file that is missing, unreadable,    *)
(* undecodable, empty or malformed.                                        *)
C6_FailuresContained ==
    /\ (parser = "parse_maven_pom" /\ pomFile.status \in FailingStatuses)
          => outcome = Returned(<<>>)
    /\ (parser = "parse_gradle_build_file" /\ gradleFile.status \in FailingStatuses)
          => outcome = Returned(<<>>)

\* the characters the colon-triple pattern admits in a segment
SegmentChars == Lower \cup Upper \cup Digit \cup {".", "_", "-"}

IsSegment(x) == x /= <<>> /\ \A i \in 1..Len(x) : x[i] \in SegmentChars

RecognizedKeywords == { TripleKeywords[n] : n \in 1..(Len(TripleKeywords) - 1) }

OneTripleDeclaration ==
    /\ gradleFile.status = "ok"
    /\ gradleFile.form = "triple"
    /\ gradleFile.parts.kw \in RecognizedKeywords
    /\ IsSegment(gradleFile.parts.g)
    /\ IsSegment(gradleFile.parts.a)
    /\ IsSegment(gradleFile.parts.v)

-----------------------------------------------------------------------------
(* What the visited directory holds, read off its listing *)

IsBuildFileName(name) == EndsWith(name, N_gradle) \/ EndsWith(name, N_kts)

PomIdx == { i \in 1..Len(files) : files[i].name = N_pom }

BuildFileIdx == { i \in 1..Len(files) : IsBuildFileName(files[i].name) }

HasBoth == walk_root > 0 /\ PomIdx /= {} /\ BuildFileIdx /= {}

Min(S) == CHOOSE i \in S : \A j \in S : i <= j

\* the "Found ... project" lines of the visited directory
FoundHere == SelectSeq(found, LAMBDA e : e.dir = walk_root)

(* C5, as stated: in a directory that holds pom.xml and a build file, in    *)
(* whatever order its files are iterated, only the manifest is parsed and  *)
(* the stored records are the manifest's.                                  *)
C5_ManifestAlwaysWins ==
    HasBoth =>
        /\ Len(FoundHere) = 1
        /\ FoundHere[1].kind = "Maven"
        /\ walk_root \in DOMAIN project_dependencies =>
              project_dependencies[walk_root] = ParseMavenPom(files[Min(PomIdx)].file).value

(* C5, amended: in a directory that holds pom.xml and a build file exactly  *)
(* one descriptor is parsed, the first of them in the iteration order of   *)
(* the files, and the stored records are its records: the manifest's (the  *)
(* build file not parsed) exactly when pom.xml comes before every build    *)
(* file in that order.                                                     *)
C5_FirstDescriptorWins ==
    HasBoth =>
        LET first == Min(PomIdx \cup BuildFileIdx)
            manifestFirst == \A i \in BuildFileIdx : Min(PomIdx) < i
        IN  /\ Len(FoundHere) = 1
            /\ FoundHere[1].name = files[first].name
            /\ FoundHere[1].kind = IF manifestFirst THEN "Maven" ELSE "Gradle"
            /\ walk_root \in DOMAIN project_dependencies =>
                  project_dependencies[walk_root] =
                      IF manifestFirst
                      THEN ParseMavenPom(files[first].file).value
                      ELSE ParseGradleBuildFile(files[first].file).value

C5_Witness ==
    /\ HasBoth
    /\ Len(files) = 2
    /\ files[2].name = N_pom
    /\ FoundHere = <<[dir |-> walk_root, kind |-> "Gradle", name |-> files[1].name]>>
    /\ walk_root \in DOMAIN project_dependencies
    /\ ParseMavenPom(files[2].file).value /= <<>>
    /\ project_dependencies[walk_root] = ParseGradleBuildFile(files[1].file).value

(* C7: a parse failure on a descriptor file never aborts a tree scan: the   *)
(* walk goes on and the scan returns its report.                           *)
C7_ScanNeverAborts == pc /= "raised"

(* C10: every key of generate_dependency_report's map is a directory in     *)
(* which a descriptor was parsed, was assigned exactly once and has a      *)
(* non-empty record list; a directory whose descriptor gave no record has  *)
(* no entry, and main never prints "No dependencies found.".               *)
C10_KeysOnceAndNonEmpty ==
    /\ \A k \in DOMAIN project_dependencies :
         /\ TruthyList(project_dependencies[k])
         /\ Count(writes, k) = 1
         /\ \E n \in 1..Len(found) : found[n].dir = k
    /\ DOMAIN writes = DOMAIN project_dependencies
    /\ \A n \in 1..Len(found) :
         (found[n].dir = walk_root /\ pc /= "raised"
            /\ Dispatch(files[FirstDescriptor(files, 1)]).deps.value = <<>>)
         => walk_root \notin DOMAIN project_dependencies
    /\ noDepsLines = 0

C10_Witness ==
    /\ pc = "printed"
    /\ walk_root = 2
    /\ DOMAIN project_dependencies = {1}
    /\ Len(found) = 2
    /\ found[2].dir = 2

\* the (project, group, artifact, version) tuples of rows in column order
RECURSIVE Tuples(_, _)
Tuples(rows, k) ==
    IF k = 0 THEN <<>>
    ELSE Append(Tuples(rows, k - 1), <<rows[k][1], rows[k][3], rows[k][4], rows[k][5]>>)

Occurrences(seq, t) == Cardinality({ i \in 1..Len(seq) : seq[i] = t })

SameMultiset(a, b) ==
    /\ Len(a) = Len(b)
    /\ \A i \in 1..Len(a) : Occurrences(a, a[i]) = Occurrences(b, a[i])

(* C9: the rows of the multi-repository scan, written to the CSV report and *)
(* read back, give the same multiset of (project, group, artifact,         *)
(* version) tuples.                                                        *)
C9_CsvRoundTrip ==
    pc = "written" =>
        SameMultiset(Tuples(all_dependencies, Len(all_dependencies)),
                     Tuples(CsvReadRows(csvfile), Len(CsvReadRows(csvfile))))

=============================================================================
